---- MODULE Spec2Model ----
(***************************************************************************)
(* KRONOS single-page site (src/src/App.tsx): the Preloader's timers and   *)
(* the App that owns it; the Navigation's hide-on-scroll handler, its      *)
(* mobile menu, mega menu and search overlay, its header class and its     *)
(* active-section observer; the scroll-triggered reveals, the hero's       *)
(* scroll and pointer parallax and the AnimatedCounter.  Each component    *)
(* has its own next-state relation and specification over the one set of   *)
(* variables.                                                              *)
(*                                                                         *)
(* Time is in milliseconds.  Every pending browser timer is kept as the    *)
(* time left until it fires; the timer with the least time left fires      *)
(* next, and the time it waited elapses for all the others.  A timer       *)
(* callback, the re-render it causes and the effects that re-run after the *)
(* render are one step.                                                    *)
(***************************************************************************)
EXTENDS Integers, Sequences, FiniteSets

VARIABLES
    now,              \* ms since the Preloader mounted, saturating at Horizon
    progress,         \* Preloader state: useState(0)
    phase,            \* Preloader state: "loading" | "complete" | "exit"
    assetsReady,      \* Preloader state
    showSkip,         \* Preloader state
    mounted,          \* the Preloader is mounted (its effects are live)
    loaded,           \* App state
    scrolled,         \* App state
    timer,            \* time left of each named timer, Off when not pending
    wdPhase,          \* the phase the pending watchdog callback closed over
    cbTimers,         \* time left of each pending setTimeout(onComplete, ..)
    currentStage,     \* closure variable of the stage effect
    currentProgress,  \* closure variable of the stage effect, in 1/Scale
    increment,        \* closure variable of runStage, in 1/Scale
    calls,            \* how often onComplete has been invoked
    hist,             \* when each event first happened (-1: not yet), and
                      \* how often the exit timer has fired
    late,             \* timers that fired after the Preloader was unmounted
    stalled,          \* environment: the stage interval never delivers a tick
    winScrollY,       \* window.scrollY as the Navigation's handler reads it
    lastScrollY,      \* Navigation state
    hideNav,          \* Navigation state
    handlerLastY,     \* lastScrollY closed over by the subscribed handleScroll
    replayIdx,        \* how many positions of ReplaySeq the window has taken,
                      \* Off once the scrolling has left the sequence
    mobileOpen,       \* Navigation state
    megaMenuOpen,     \* Navigation state
    searchOpen,       \* Navigation state
    bodyLocked,       \* document.body.style.overflow is 'hidden'
    pointer,          \* where the mouse is: "away" | "trigger" | "menu"
    megaTimers,       \* pending mega-menu timeouts: time left, the value
                      \* they set, whether megaMenuTimeoutRef holds them
    menuExit,         \* time left of the mega menu's exit transition
    dwell,            \* ms the pointer has been on the Divisions trigger
    slowHover,        \* the pointer once stayed there for 150 ms or more
    focus,            \* document.activeElement: 0 outside the mobile menu,
                      \* k on its k-th focusable element
    focusables,       \* focusable elements in the mobile menu (0: closed)
    autoFocusPending, \* the 100 ms auto-focus timeout is pending
    lastKey,          \* history: the key press that led to this state, with
                      \* the overlays open and the focus before it
    inViewport,       \* per observed element: it intersects the viewport
    isInView,         \* per observed element: what useInView returns
    observing,        \* per observed element: its observer is attached
    reveals,          \* per observed element: how often its reveal started
    visits,           \* per observed element: how often it came into view
                      \* (counted up to 2)
    heroWinY,         \* window.scrollY as the hero's handleScroll reads it
    heroScrollY,      \* HeroSection state scrollY
    twinWinY,         \* window.scrollY of a second run of the hero
    twinScrollY,      \* HeroSection state scrollY of the second run
    innerHeight,      \* window.innerHeight
    viewportHeight,   \* HeroSection state
    handlerVh,        \* viewportHeight closed over by the subscribed handler
    mousePosition,    \* HeroSection state, in percent of the window
    activeSection,    \* Navigation state
    lastEntries,      \* history: the entries of the last observer callback
    ctrValue,         \* AnimatedCounter prop value
    ctrCount,         \* AnimatedCounter state count
    ctrTicks,         \* how often the counter's interval callback has run
    ctrUnder,         \* the closure variable current has fallen below the
                      \* exact sum by a rounding error
    ctrInterval,      \* the counter's interval is set
    ctrMounted,       \* the AnimatedCounter is mounted
    ctrInView         \* what the counter's useInView returns

preVars == <<now, progress, phase, assetsReady, showSkip, mounted, loaded,
             scrolled, timer, wdPhase, cbTimers, currentStage,
             currentProgress, increment, calls, hist, late, stalled>>
navVars == <<winScrollY, lastScrollY, hideNav, handlerLastY, replayIdx>>
menuVars == <<mobileOpen, megaMenuOpen, searchOpen, bodyLocked, pointer,
              megaTimers, menuExit, dwell, slowHover, focus, focusables,
              autoFocusPending, lastKey>>
revealVars == <<inViewport, isInView, observing, reveals, visits>>
heroVars == <<heroWinY, heroScrollY, twinWinY, twinScrollY, innerHeight,
              viewportHeight, handlerVh, mousePosition>>
contentVars == <<revealVars, heroVars>>
sectionVars == <<activeSection, lastEntries>>
counterVars == <<ctrValue, ctrCount, ctrTicks, ctrUnder, ctrInterval,
                 ctrMounted, ctrInView>>
otherVars == <<sectionVars, counterVars>>
pageVars == <<navVars, menuVars, contentVars, otherVars>>
vars == <<preVars, pageVars>>

----------------------------------------------------------------------------
(* Bounds of the model *)

\* the clock stops counting here (timers go on running)
Horizon == 12000
\* the user acts (clicks Skip, scrolls across the App's 50 px line) at
\* multiples of this many ms
UserStep == 500
\* the mouse and the keyboard act, and the mega-menu timers are looked at,
\* every this many ms
HoverStep == 50
\* the mobile menu holds at most this many focusable elements
MaxFocusable == 3
\* an intersection-observer callback gets at most this many entries
MaxBatch == 2

(* Program constants *)
SKIP_SHOW_MS == 2000
WATCHDOG_MS == 10000
FORCED_CALLBACK_MS == 300
START_DELAY_MS == 300
TICK_MS == 16
PAUSE_MIN_MS == 50
PAUSE_SPAN_MS == 100
READY_DELAY_MS == 400
EXIT_DELAY_MS == 600
EXIT_CALLBACK_MS == 800
EXIT_ANIM_MS == 500
OPEN_DELAY_MS == 150
DIV_CLOSE_MS == 300
MENU_CLOSE_MS == 200
MENU_EXIT_MS == 300
INITIAL_VH == 800

\* the components that reveal themselves through useInView
RevealSites == {"AnimatedCounter", "ManifestoSection", "DivisionCard",
                "DivisionsSection", "ConnectionSection", "StatsSection",
                "CTASection"}

\* the time left of a timer that is not pending (never set, fired or cleared)
Off == 0 - 1

TimerNames == {"skip", "wd", "start", "tick", "pause", "ready", "exit",
               "unmount", "user"}

\* the stage table with the third target mistyped (25 for 55)
stagesTypo == << [target |-> 15,  duration |-> 200],
                 [target |-> 35,  duration |-> 400],
                 [target |-> 25,  duration |-> 300],
                 [target |-> 75,  duration |-> 500],
                 [target |-> 90,  duration |-> 400],
                 [target |-> 100, duration |-> 200] >>

stages == << [target |-> 15,  duration |-> 200],
             [target |-> 35,  duration |-> 400],
             [target |-> 55,  duration |-> 300],
             [target |-> 75,  duration |-> 500],
             [target |-> 90,  duration |-> 400],
             [target |-> 100, duration |-> 200] >>

\* currentProgress and increment are fractions; with this denominator every
\* increment of the stage table is a whole number
Scale == 3 * 25

\* 50 + Math.random() * 100, truncated to whole ms by setTimeout: the two ends
PauseDelays == {PAUSE_MIN_MS, PAUSE_MIN_MS + PAUSE_SPAN_MS - 1}

Min(a, b) == IF a < b THEN a ELSE b

----------------------------------------------------------------------------
(* The timer queue *)

Pending == {timer[n] : n \in TimerNames} \cup
           {cbTimers[i] : i \in DOMAIN cbTimers}

\* d is the least time left among the pending timers
IsNext(d) == d # Off /\ \A x \in Pending : x = Off \/ d <= x

\* the named timers after d ms
Elapsed(d) == [n \in TimerNames |->
                 IF timer[n] = Off THEN Off ELSE timer[n] - d]

\* the completion-callback timers after d ms
ElapsedCb(d) == [i \in DOMAIN cbTimers |-> cbTimers[i] - d]

Clock(d) == Min(now + d, Horizon)

\* hist with event e stamped at time t, unless it was stamped before
Stamp(h, e, t) == IF h[e] = -1 THEN [h EXCEPT ![e] = t] ELSE h

\* a timer callback that runs after unmount is recorded
Late(n) == IF mounted THEN late ELSE late \cup {n}

----------------------------------------------------------------------------
Init ==
    /\ now = 0
    /\ progress = 0
    /\ phase = "loading"
    /\ assetsReady = FALSE
    /\ showSkip = FALSE
    /\ mounted = TRUE
    /\ loaded = FALSE
    /\ scrolled = FALSE
    /\ timer = [n \in TimerNames |->
                  CASE n = "skip"  -> SKIP_SHOW_MS
                    [] n = "wd"    -> WATCHDOG_MS
                    [] n = "start" -> START_DELAY_MS
                    [] n = "user"  -> UserStep
                    [] OTHER       -> Off]
    /\ wdPhase = "loading"
    /\ cbTimers = << >>
    /\ currentStage = 0
    /\ currentProgress = 0
    /\ increment = 0
    /\ calls = 0
    /\ hist = [complete |-> -1, ready |-> -1, exit |-> -1, call |-> -1,
               click |-> -1, skip |-> -1, forced |-> -1, unmount |-> -1,
               exits |-> 0]
    /\ late = {}
    /\ stalled \in BOOLEAN
    /\ winScrollY = 0
    /\ lastScrollY = 0
    /\ hideNav = FALSE
    /\ handlerLastY = 0
    /\ replayIdx = 1
    /\ mobileOpen = FALSE
    /\ megaMenuOpen = FALSE
    /\ searchOpen = FALSE
    /\ bodyLocked = FALSE
    /\ pointer = "away"
    /\ megaTimers = << >>
    /\ menuExit = Off
    /\ dwell = 0
    /\ slowHover = FALSE
    /\ focus = 0
    /\ focusables = 0
    /\ autoFocusPending = FALSE
    /\ lastKey = [key |-> "none", open |-> {}, focus |-> 0]
    /\ inViewport = [e \in RevealSites |-> FALSE]
    /\ isInView = [e \in RevealSites |-> FALSE]
    /\ observing = [e \in RevealSites |-> TRUE]
    /\ reveals = [e \in RevealSites |-> 0]
    /\ visits = [e \in RevealSites |-> 0]
    /\ heroWinY = 0
    /\ heroScrollY = 0
    /\ twinWinY = 0
    /\ twinScrollY = 0
    /\ innerHeight = INITIAL_VH
    /\ viewportHeight = INITIAL_VH
    /\ handlerVh = INITIAL_VH
    /\ mousePosition = [x |-> 50, y |-> 50]
    /\ activeSection = ""
    /\ lastEntries = << >>
    /\ ctrValue = 0
    /\ ctrCount = 0
    /\ ctrTicks = 0
    /\ ctrUnder = FALSE
    /\ ctrInterval = FALSE
    /\ ctrMounted = FALSE
    /\ ctrInView = FALSE

----------------------------------------------------------------------------
(* Rendering: state setters and the effects that re-run after a render *)

\* setPhase(p): a state update of an unmounted component is dropped
SetPhase(p) == IF mounted THEN p ELSE phase

\* the watchdog effect, deps [onComplete, phase], re-runs (clearing and
\* re-arming its timer) when the phase or the onComplete prop changed
WatchdogReruns(newPhase, propChanged) ==
    mounted /\ (newPhase # phase \/ propChanged)

\* the exit effect, deps [assetsReady, onComplete]
ExitReruns(newReady, propChanged) ==
    mounted /\ (newReady # assetsReady \/ propChanged)

\* the named timers tm after the render that follows a state change
AfterRender(tm, newPhase, newReady, propChanged) ==
    [tm EXCEPT
       !["wd"]   = IF WatchdogReruns(newPhase, propChanged)
                   THEN WATCHDOG_MS ELSE @,
       !["exit"] = IF ExitReruns(newReady, propChanged)
                   THEN (IF newReady THEN EXIT_DELAY_MS ELSE Off) ELSE @]

\* the skip button rendered without waiting for showSkip
SkipShownAtOnce == phase = "loading"

\* the skip button is rendered
SkipShown == showSkip /\ phase = "loading"

\* App renders the Preloader with a fresh inline onComplete; an exiting
\* Preloader (loaded is true) is kept by AnimatePresence with its old props
PropChanges == mounted /\ ~loaded

----------------------------------------------------------------------------
(* Preloader timers *)

\* setTimeout(() => setShowSkip(true), 2000)
FireSkipTimer ==
    /\ IsNext(timer["skip"])
    /\ LET d == timer["skip"] IN
       /\ now' = Clock(d)
       /\ timer' = [Elapsed(d) EXCEPT !["skip"] = Off]
       /\ cbTimers' = ElapsedCb(d)
    /\ showSkip' = TRUE
    /\ UNCHANGED <<progress, phase, assetsReady, mounted, loaded, scrolled,
                   wdPhase, currentStage, currentProgress, increment, calls,
                   hist, late, stalled, pageVars>>

\* the 10 s timeout fallback
FireWatchdog ==
    /\ IsNext(timer["wd"])
    /\ LET d == timer["wd"] IN
       /\ now' = Clock(d)
       /\ IF wdPhase # "exit"
          THEN /\ phase' = SetPhase("exit")
               /\ cbTimers' = Append(ElapsedCb(d), FORCED_CALLBACK_MS)
               /\ timer' = AfterRender([Elapsed(d) EXCEPT !["wd"] = Off],
                                       SetPhase("exit"), assetsReady, FALSE)
               /\ wdPhase' = IF WatchdogReruns(SetPhase("exit"), FALSE)
                             THEN SetPhase("exit") ELSE wdPhase
               /\ hist' = Stamp(Stamp(hist, "forced", Clock(d)),
                                "exit", Clock(d))
          ELSE /\ timer' = [Elapsed(d) EXCEPT !["wd"] = Off]
               /\ cbTimers' = ElapsedCb(d)
               /\ UNCHANGED <<phase, wdPhase, hist>>
    /\ UNCHANGED <<progress, assetsReady, showSkip, mounted, loaded, scrolled,
                   currentStage, currentProgress, increment, calls, late,
                   stalled, pageVars>>

\* runStage(), called with the named timers tm at clock time t
RunStage(tm, t) ==
    IF currentStage >= Len(stages)
    THEN /\ phase' = SetPhase("complete")
         /\ timer' = AfterRender([tm EXCEPT !["ready"] = READY_DELAY_MS],
                                 SetPhase("complete"), assetsReady, FALSE)
         /\ wdPhase' = IF WatchdogReruns(SetPhase("complete"), FALSE)
                       THEN SetPhase("complete") ELSE wdPhase
         /\ hist' = IF mounted THEN Stamp(hist, "complete", t) ELSE hist
         /\ UNCHANGED increment
    ELSE /\ increment' =
              ((stages[currentStage + 1].target * Scale - currentProgress)
                 * TICK_MS) \div stages[currentStage + 1].duration
         /\ timer' = [tm EXCEPT !["tick"] = IF stalled THEN Off ELSE TICK_MS]
         /\ UNCHANGED <<phase, wdPhase, hist>>

\* const startTimer = setTimeout(runStage, 300)
FireStart ==
    /\ IsNext(timer["start"])
    /\ LET d == timer["start"] IN
       /\ now' = Clock(d)
       /\ cbTimers' = ElapsedCb(d)
       /\ RunStage([Elapsed(d) EXCEPT !["start"] = Off], Clock(d))
    /\ UNCHANGED <<progress, assetsReady, showSkip, mounted, loaded, scrolled,
                   currentStage, currentProgress, calls, late, stalled,
                   pageVars>>

\* setProgress(v)
SetProgress(v) == IF mounted THEN v ELSE progress

\* one tick of the stage's setInterval.  currentProgress is a double: where
\* the exact sum is a whole number the double is that number or lies just
\* below it (below = TRUE), which decides Math.floor and the >= test
FireTick ==
    /\ IsNext(timer["tick"])
    /\ LET d      == timer["tick"]
           target == stages[currentStage + 1].target
           sum    == currentProgress + increment
       IN
       /\ now' = Clock(d)
       /\ cbTimers' = ElapsedCb(d)
       /\ \E below \in IF sum % Scale = 0 THEN BOOLEAN ELSE {FALSE} :
            IF sum > target * Scale \/ (sum = target * Scale /\ ~below)
            THEN /\ currentProgress' = target * Scale
                 /\ progress' = SetProgress(target)
                 /\ currentStage' = currentStage + 1
                 /\ \E p \in PauseDelays :
                      timer' = [Elapsed(d) EXCEPT !["tick"] = Off,
                                                  !["pause"] = p]
            ELSE /\ currentProgress' = sum
                 /\ progress' = SetProgress(IF below THEN sum \div Scale - 1
                                                     ELSE sum \div Scale)
                 /\ timer' = [Elapsed(d) EXCEPT !["tick"] = TICK_MS]
                 /\ UNCHANGED currentStage
    /\ late' = Late("tick")
    /\ UNCHANGED <<phase, assetsReady, showSkip, mounted, loaded, scrolled,
                   wdPhase, increment, calls, hist, stalled, pageVars>>

\* setTimeout(runStage, 50 + Math.random() * 100)
FirePause ==
    /\ IsNext(timer["pause"])
    /\ LET d == timer["pause"] IN
       /\ now' = Clock(d)
       /\ cbTimers' = ElapsedCb(d)
       /\ RunStage([Elapsed(d) EXCEPT !["pause"] = Off], Clock(d))
    /\ late' = Late("pause")
    /\ UNCHANGED <<progress, assetsReady, showSkip, mounted, loaded, scrolled,
                   currentStage, currentProgress, calls, stalled, pageVars>>

\* setTimeout(() => setAssetsReady(true), 400)
FireReady ==
    /\ IsNext(timer["ready"])
    /\ LET d == timer["ready"]
           newReady == IF mounted THEN TRUE ELSE assetsReady
       IN
       /\ now' = Clock(d)
       /\ cbTimers' = ElapsedCb(d)
       /\ assetsReady' = newReady
       /\ timer' = AfterRender([Elapsed(d) EXCEPT !["ready"] = Off],
                               phase, newReady, FALSE)
       /\ hist' = IF mounted THEN Stamp(hist, "ready", Clock(d)) ELSE hist
    /\ late' = Late("ready")
    /\ UNCHANGED <<progress, phase, showSkip, mounted, loaded, scrolled,
                   wdPhase, currentStage, currentProgress, increment, calls,
                   stalled, pageVars>>

\* the exit effect's exitTimer
FireExit ==
    /\ IsNext(timer["exit"])
    /\ LET d == timer["exit"] IN
       /\ now' = Clock(d)
       /\ phase' = SetPhase("exit")
       /\ cbTimers' = Append(ElapsedCb(d), EXIT_CALLBACK_MS)
       /\ timer' = AfterRender([Elapsed(d) EXCEPT !["exit"] = Off],
                               SetPhase("exit"), assetsReady, FALSE)
       /\ wdPhase' = IF WatchdogReruns(SetPhase("exit"), FALSE)
                     THEN SetPhase("exit") ELSE wdPhase
       /\ hist' = [Stamp(hist, "exit", Clock(d)) EXCEPT !.exits = @ + 1]
    /\ UNCHANGED <<progress, assetsReady, showSkip, mounted, loaded, scrolled,
                   currentStage, currentProgress, increment, calls, late,
                   stalled, pageVars>>

\* a pending setTimeout(onComplete, ..) fires: App's setLoaded(true); the
\* Preloader leaves the tree when its exit animation (0.5 s) has run
FireCallback ==
    \E i \in DOMAIN cbTimers :
      /\ IsNext(cbTimers[i])
      /\ LET d == cbTimers[i] IN
         /\ now' = Clock(d)
         /\ cbTimers' = [j \in 1 .. Len(cbTimers) - 1 |->
                           IF j < i THEN cbTimers[j] - d
                                    ELSE cbTimers[j + 1] - d]
         /\ timer' = [Elapsed(d) EXCEPT
                        !["unmount"] = IF mounted /\ ~loaded
                                       THEN EXIT_ANIM_MS ELSE @]
         /\ hist' = Stamp(hist, "call", Clock(d))
      /\ calls' = calls + 1
      /\ loaded' = TRUE
      /\ late' = Late("callback")
      /\ UNCHANGED <<progress, phase, assetsReady, showSkip, mounted,
                     scrolled, wdPhase, currentStage, currentProgress,
                     increment, stalled, pageVars>>

\* the Preloader unmounts: the cleanups of its four effects run
FireUnmount ==
    /\ IsNext(timer["unmount"])
    /\ LET d == timer["unmount"] IN
       /\ now' = Clock(d)
       /\ cbTimers' = ElapsedCb(d)
       /\ timer' = [Elapsed(d) EXCEPT !["unmount"] = Off, !["skip"] = Off,
                                      !["wd"] = Off, !["start"] = Off,
                                      !["exit"] = Off]
       /\ hist' = Stamp(hist, "unmount", Clock(d))
    /\ mounted' = FALSE
    /\ UNCHANGED <<progress, phase, assetsReady, showSkip, loaded, scrolled,
                   wdPhase, currentStage, currentProgress, increment, calls,
                   late, stalled, pageVars>>

----------------------------------------------------------------------------
(* The user and the App *)

\* the user can still matter: the Preloader is mounted or one of its timers
\* is still pending
UserActive ==
    mounted \/ cbTimers # << >> \/
    \E n \in TimerNames \ {"user"} : timer[n] # Off

\* a user instant passes with no input
UserIdle ==
    /\ UserActive
    /\ IsNext(timer["user"])
    /\ LET d == timer["user"] IN
       /\ now' = Clock(d)
       /\ timer' = [Elapsed(d) EXCEPT !["user"] = UserStep]
       /\ cbTimers' = ElapsedCb(d)
    /\ UNCHANGED <<progress, phase, assetsReady, showSkip, mounted, loaded,
                   scrolled, wdPhase, currentStage, currentProgress,
                   increment, calls, hist, late, stalled, pageVars>>

\* the user clicks where the skip button is: handleSkip runs if the button
\* is rendered, nothing happens if it is not
SkipClick ==
    /\ UserActive
    /\ IsNext(timer["user"])
    /\ LET d == timer["user"] IN
       /\ now' = Clock(d)
       /\ IF mounted /\ SkipShown
          THEN /\ phase' = "exit"
               /\ cbTimers' = Append(ElapsedCb(d), FORCED_CALLBACK_MS)
               /\ timer' = AfterRender([Elapsed(d) EXCEPT !["user"] = UserStep],
                                       "exit", assetsReady, FALSE)
               /\ wdPhase' = IF WatchdogReruns("exit", FALSE)
                             THEN "exit" ELSE wdPhase
               /\ hist' = Stamp(Stamp(Stamp(hist, "click", Clock(d)),
                                      "skip", Clock(d)), "exit", Clock(d))
          ELSE /\ timer' = [Elapsed(d) EXCEPT !["user"] = UserStep]
               /\ cbTimers' = ElapsedCb(d)
               /\ hist' = Stamp(hist, "click", Clock(d))
               /\ UNCHANGED <<phase, wdPhase>>
    /\ UNCHANGED <<progress, assetsReady, showSkip, mounted, loaded, scrolled,
                   currentStage, currentProgress, increment, calls, late,
                   stalled, pageVars>>

\* the user scrolls across the 50 px line: App's setScrolled re-renders App,
\* which hands the Preloader a new onComplete
ParentScroll ==
    /\ UserActive
    /\ IsNext(timer["user"])
    /\ LET d == timer["user"] IN
       /\ now' = Clock(d)
       /\ cbTimers' = ElapsedCb(d)
       /\ timer' = AfterRender([Elapsed(d) EXCEPT !["user"] = UserStep],
                               phase, assetsReady, PropChanges)
       /\ wdPhase' = IF WatchdogReruns(phase, PropChanges)
                     THEN phase ELSE wdPhase
    /\ scrolled' = ~scrolled
    /\ UNCHANGED <<progress, phase, assetsReady, showSkip, mounted, loaded,
                   currentStage, currentProgress, increment, calls, hist,
                   late, stalled, pageVars>>

TimerFires ==
    \/ FireSkipTimer
    \/ FireWatchdog
    \/ FireStart
    \/ FireTick
    \/ FirePause
    \/ FireReady
    \/ FireExit
    \/ FireCallback
    \/ FireUnmount

Next ==
    \/ TimerFires
    \/ UserIdle
    \/ SkipClick
    \/ ParentScroll

Spec == Init /\ [][Next]_vars

\* timers that are due fire, and time goes on
FairSpec == Spec /\ WF_vars(TimerFires) /\ WF_vars(Next)

TypeOK ==
    /\ now \in 0 .. Horizon
    /\ progress \in 0 .. 100
    /\ phase \in {"loading", "complete", "exit"}
    /\ calls \in 0 .. 3
    /\ Len(cbTimers) <= 3
    /\ \A n \in TimerNames : timer[n] \in -1 .. WATCHDOG_MS

----------------------------------------------------------------------------
(* Navigation: hide on scroll down, show on scroll up *)

NAV_HIDE_FROM == 500
NAV_MIN_DELTA == 10

\* the scroll positions the window is scrolled to
ScrollYs == {0, 100, 490, 500, 501, 505, 510, 511, 512, 580, 600, 620}

\* handleScroll comparing the delta with >= instead of >
HideAfterGe(cur, last, hide) ==
    IF cur > NAV_HIDE_FROM
    THEN IF cur > last /\ cur - last >= NAV_MIN_DELTA THEN TRUE
         ELSE IF last - cur >= NAV_MIN_DELTA THEN FALSE
         ELSE hide
    ELSE FALSE

\* handleScroll without its scroll-up branch
HideAfterNoShow(cur, last, hide) ==
    IF cur > NAV_HIDE_FROM
    THEN IF cur > last /\ cur - last > NAV_MIN_DELTA THEN TRUE
         ELSE hide
    ELSE FALSE

\* hideNav after handleScroll has read window.scrollY = cur, with the
\* lastScrollY it closed over and the hideNav it leaves alone if no branch
\* sets it
HideAfter(cur, last, hide) ==
    IF cur > NAV_HIDE_FROM
    THEN IF cur > last /\ cur - last > NAV_MIN_DELTA THEN TRUE
         ELSE IF last - cur > NAV_MIN_DELTA THEN FALSE
         ELSE hide
    ELSE FALSE

\* the scroll positions of the replayed sequence; the page is at the first
\* of them when the Navigation mounts
ReplaySeq == <<0, 100, 600, 580, 620>>

\* replayIdx after the window has moved to y
Replayed(idx, y) ==
    IF idx # Off /\ idx < Len(ReplaySeq) /\ y = ReplaySeq[idx + 1]
    THEN idx + 1
    ELSE Off

\* a scroll event: the subscribed handleScroll runs
NavScroll ==
    \E y \in ScrollYs :
      /\ y # winScrollY
      /\ winScrollY' = y
      /\ hideNav' = HideAfter(y, handlerLastY, hideNav)
      /\ lastScrollY' = y
      /\ replayIdx' = Replayed(replayIdx, y)
      /\ UNCHANGED <<handlerLastY, preVars, menuVars, contentVars, otherVars>>

\* the effect with deps [lastScrollY] runs after the render: it removes the
\* old listener and adds one that closes over the new lastScrollY
NavResubscribe ==
    /\ handlerLastY # lastScrollY
    /\ handlerLastY' = lastScrollY
    /\ UNCHANGED <<winScrollY, lastScrollY, hideNav, replayIdx, preVars,
                   menuVars, contentVars, otherVars>>

NavNext ==
    \/ NavScroll
    \/ NavResubscribe

NavSpec == Init /\ [][NavNext]_vars

----------------------------------------------------------------------------
(* Navigation: mobile menu, mega menu, search overlay *)

\* lastKey after a step that is not a key press
NoKey == [key |-> "none", open |-> {}, focus |-> 0]

\* lastKey after a press of key
Pressed(key) ==
    [key |-> key,
     open |-> {o \in {"mobile", "mega", "search"} :
                 \/ o = "mobile" /\ mobileOpen
                 \/ o = "mega" /\ megaMenuOpen
                 \/ o = "search" /\ searchOpen},
     focus |-> focus]

\* a mega-menu timeout of ms milliseconds that will run setMegaMenuOpen(open)
\* and that megaMenuTimeoutRef now holds
MegaTimer(ms, open) == [left |-> ms, open |-> open, held |-> TRUE]

\* clearTimeout(megaMenuTimeoutRef.current)
ClearHeld(ts) == SelectSeq(ts, LAMBDA t : ~t.held)

\* megaMenuTimeoutRef.current = setTimeout(.., ms): the ref lets go of the
\* timeout it held, which stays pending unless it was cleared before
Schedule(ts, ms, open) ==
    Append([i \in DOMAIN ts |-> [ts[i] EXCEPT !.held = FALSE]],
           MegaTimer(ms, open))

\* handlers that leave out their clearTimeout
AfterDivisionsLeaveNoClear(ts) == Schedule(ts, DIV_CLOSE_MS, FALSE)
AfterMenuEnterNoClear(ts) == ts

\* the pending timeouts after each hover handler
AfterDivisionsEnter(ts) == Schedule(ClearHeld(ts), OPEN_DELAY_MS, TRUE)
AfterDivisionsLeave(ts) == Schedule(ClearHeld(ts), DIV_CLOSE_MS, FALSE)
AfterMenuEnter(ts) == ClearHeld(ts)
AfterMenuLeave(ts) == Schedule(ts, MENU_CLOSE_MS, FALSE)

\* a time left after HoverStep ms have passed
Dec(left) == IF left < HoverStep THEN 0 ELSE left - HoverStep

\* the mega menu's element is in the document: open, or closing
MenuInDom == megaMenuOpen \/ menuExit # Off

\* body scroll lock after a render of Navigation.  SearchOverlay's effect
\* has the inline onClose among its deps, so it is cleaned up and re-run on
\* every render; Navigation's effect only when mobileOpen changed, and it
\* runs after its child's
LockAfterRender(mobWas, mob, srch) == IF mob # mobWas THEN mob ELSE srch

\* the Navigation's setters have run; if a value changed it renders and the
\* effects of the render run
SetOverlays(mob, mega, srch) ==
    /\ mobileOpen' = mob
    /\ megaMenuOpen' = mega
    /\ searchOpen' = srch
    /\ bodyLocked' =
         IF <<mob, mega, srch>> = <<mobileOpen, megaMenuOpen, searchOpen>>
         THEN bodyLocked
         ELSE LockAfterRender(mobileOpen, mob, srch)
    /\ menuExit' = IF megaMenuOpen /\ ~mega THEN MENU_EXIT_MS
                   ELSE IF mega THEN Off
                   ELSE menuExit
    /\ focus' = IF (mobileOpen /\ ~mob) \/ (~searchOpen /\ srch) THEN 0
                ELSE focus
    /\ IF ~mobileOpen /\ mob THEN focusables' \in 1 .. MaxFocusable
       ELSE IF mobileOpen /\ ~mob THEN focusables' = 0
       ELSE focusables' = focusables
    /\ autoFocusPending' = (autoFocusPending \/ (~mobileOpen /\ mob))

\* the pointer moves onto the Divisions trigger
DivisionsMouseEnter ==
    /\ pointer = "away"
    /\ pointer' = "trigger"
    /\ megaTimers' = AfterDivisionsEnter(megaTimers)
    /\ dwell' = 0
    /\ lastKey' = NoKey
    /\ UNCHANGED <<mobileOpen, megaMenuOpen, searchOpen, bodyLocked, menuExit,
                   slowHover, focus, focusables, autoFocusPending, preVars,
                   navVars,
                   contentVars, otherVars>>

\* the pointer moves off the Divisions trigger
DivisionsMouseLeave ==
    /\ pointer = "trigger"
    /\ pointer' = "away"
    /\ megaTimers' = AfterDivisionsLeave(megaTimers)
    /\ dwell' = 0
    /\ lastKey' = NoKey
    /\ UNCHANGED <<mobileOpen, megaMenuOpen, searchOpen, bodyLocked, menuExit,
                   slowHover, focus, focusables, autoFocusPending, preVars,
                   navVars,
                   contentVars, otherVars>>

\* the pointer moves onto the mega menu (open, or still fading out)
MegaMenuMouseEnter ==
    /\ pointer = "away"
    /\ MenuInDom
    /\ pointer' = "menu"
    /\ megaTimers' = AfterMenuEnter(megaTimers)
    /\ lastKey' = NoKey
    /\ UNCHANGED <<mobileOpen, megaMenuOpen, searchOpen, bodyLocked, menuExit,
                   dwell, slowHover, focus, focusables, autoFocusPending,
                   preVars, navVars,
                   contentVars, otherVars>>

\* the pointer moves off the mega menu: the menu's own onMouseLeave={onClose}
\* and the wrapper's handleMegaMenuMouseLeave both run
MegaMenuMouseLeave ==
    /\ pointer = "menu"
    /\ pointer' = "away"
    /\ megaTimers' = AfterMenuLeave(megaTimers)
    /\ SetOverlays(mobileOpen, FALSE, searchOpen)
    /\ lastKey' = NoKey
    /\ UNCHANGED <<dwell, slowHover, preVars, navVars,
                   contentVars, otherVars>>

\* HoverStep ms pass with no timeout due
HoverTick ==
    /\ \A i \in DOMAIN megaTimers : megaTimers[i].left > 0
    /\ menuExit # 0
    /\ megaTimers' = [i \in DOMAIN megaTimers |->
                        [megaTimers[i] EXCEPT !.left = Dec(@)]]
    /\ menuExit' = IF menuExit = Off THEN Off ELSE Dec(menuExit)
    /\ dwell' = IF pointer = "trigger"
                THEN Min(dwell + HoverStep, OPEN_DELAY_MS)
                ELSE 0
    /\ slowHover' = (slowHover \/ (pointer = "trigger"
                                     /\ dwell + HoverStep >= OPEN_DELAY_MS))
    /\ lastKey' = NoKey
    /\ UNCHANGED <<mobileOpen, megaMenuOpen, searchOpen, bodyLocked, pointer,
                   focus, focusables, autoFocusPending, preVars, navVars,
                   contentVars, otherVars>>

\* a mega-menu timeout fires
MegaTimerFires ==
    \E i \in DOMAIN megaTimers :
      /\ megaTimers[i].left = 0
      /\ megaTimers' = [j \in 1 .. Len(megaTimers) - 1 |->
                          IF j < i THEN megaTimers[j] ELSE megaTimers[j + 1]]
      /\ SetOverlays(mobileOpen, megaTimers[i].open, searchOpen)
      /\ lastKey' = NoKey
      /\ UNCHANGED <<pointer, dwell, slowHover, preVars, navVars,
                   contentVars, otherVars>>

\* the exit transition of the mega menu ends and its element is removed
MenuExitDone ==
    /\ menuExit = 0
    /\ menuExit' = Off
    /\ pointer' = IF pointer = "menu" THEN "away" ELSE pointer
    /\ lastKey' = NoKey
    /\ UNCHANGED <<mobileOpen, megaMenuOpen, searchOpen, bodyLocked,
                   megaTimers, dwell, slowHover, focus, focusables,
                   autoFocusPending, preVars, navVars,
                   contentVars, otherVars>>

\* the hamburger button (the search overlay, when open, covers the page)
ToggleMobile ==
    /\ ~searchOpen
    /\ SetOverlays(~mobileOpen, megaMenuOpen, searchOpen)
    /\ lastKey' = NoKey
    /\ UNCHANGED <<pointer, megaTimers, dwell, slowHover, preVars, navVars,
                   contentVars, otherVars>>

\* a link of the mobile menu
MobileLinkClick ==
    /\ mobileOpen
    /\ ~searchOpen
    /\ SetOverlays(FALSE, megaMenuOpen, searchOpen)
    /\ lastKey' = NoKey
    /\ UNCHANGED <<pointer, megaTimers, dwell, slowHover, preVars, navVars,
                   contentVars, otherVars>>

\* the search button of the header
OpenSearch ==
    /\ ~searchOpen
    /\ SetOverlays(mobileOpen, megaMenuOpen, TRUE)
    /\ lastKey' = NoKey
    /\ UNCHANGED <<pointer, megaTimers, dwell, slowHover, preVars, navVars,
                   contentVars, otherVars>>

\* the close button (or a result) of the search overlay
CloseSearch ==
    /\ searchOpen
    /\ SetOverlays(mobileOpen, megaMenuOpen, FALSE)
    /\ lastKey' = NoKey
    /\ UNCHANGED <<pointer, megaTimers, dwell, slowHover, preVars, navVars,
                   contentVars, otherVars>>

\* Escape as Navigation's handleKeyDown alone would treat it
AfterEscapeNavOnly(mob, mega, srch) ==
    [mobile |-> FALSE, mega |-> FALSE, search |-> srch]

\* the three flags after a keydown of Escape: each component's listener is
\* on the document only while its own overlay is open
AfterEscape(mob, mega, srch) ==
    [mobile |-> IF mob THEN FALSE ELSE mob,
     mega   |-> IF mob \/ mega THEN FALSE ELSE mega,
     search |-> IF srch THEN FALSE ELSE srch]

PressEscape ==
    LET after == AfterEscape(mobileOpen, megaMenuOpen, searchOpen) IN
      /\ SetOverlays(after.mobile, after.mega, after.search)
      /\ lastKey' = Pressed("Escape")
      /\ UNCHANGED <<pointer, megaTimers, dwell, slowHover, preVars, navVars,
                   contentVars, otherVars>>

\* a trap that only wraps Tab on the last element
FocusAfterTabForwardOnly(f, n, shift) ==
    IF ~shift /\ f = n THEN 1
    ELSE IF shift THEN f - 1
    ELSE IF f + 1 > n THEN 0 ELSE f + 1

\* document.activeElement after Tab (Shift+Tab if shift) was pressed on the
\* f-th of the mobile menu's n focusable elements: the handler wraps at the
\* ends, anywhere else the browser moves to the neighbour
FocusAfterTab(f, n, shift) ==
    IF shift /\ f = 1 THEN n
    ELSE IF ~shift /\ f = n THEN 1
    ELSE IF shift THEN f - 1
    ELSE IF f + 1 > n THEN 0 ELSE f + 1

\* Tab or Shift+Tab while the mobile menu is open; from outside the menu the
\* browser moves to the next element, in the menu or not
PressTab(shift) ==
    /\ mobileOpen
    /\ IF focus = 0
       THEN focus' \in {0, IF shift THEN focusables ELSE 1}
       ELSE focus' = FocusAfterTab(focus, focusables, shift)
    /\ lastKey' = Pressed(IF shift THEN "ShiftTab" ELSE "Tab")
    /\ UNCHANGED <<mobileOpen, megaMenuOpen, searchOpen, bodyLocked, pointer,
                   megaTimers, menuExit, dwell, slowHover, focusables,
                   autoFocusPending, preVars, navVars,
                   contentVars, otherVars>>

\* the auto-focus timeout set when the mobile menu opened
AutoFocusFires ==
    /\ autoFocusPending
    /\ autoFocusPending' = FALSE
    /\ focus' = IF mobileOpen THEN 1 ELSE focus
    /\ lastKey' = NoKey
    /\ UNCHANGED <<mobileOpen, megaMenuOpen, searchOpen, bodyLocked, pointer,
                   megaTimers, menuExit, dwell, slowHover, focusables,
                   preVars, navVars,
                   contentVars, otherVars>>

MenuNext ==
    \/ DivisionsMouseEnter
    \/ DivisionsMouseLeave
    \/ MegaMenuMouseEnter
    \/ MegaMenuMouseLeave
    \/ HoverTick
    \/ MegaTimerFires
    \/ MenuExitDone
    \/ ToggleMobile
    \/ MobileLinkClick
    \/ OpenSearch
    \/ CloseSearch
    \/ PressEscape
    \/ \E shift \in BOOLEAN : PressTab(shift)
    \/ AutoFocusFires

MenuSpec == Init /\ [][MenuNext]_vars

----------------------------------------------------------------------------
(* Navigation: the header's translate class *)

\* a header whose class looks at hideNav alone
HeaderTranslateIgnoresMobile(hide, mobile) ==
    IF hide THEN "-translate-y-full" ELSE "translate-y-0"

\* the translate class of the header in a render with these two states
HeaderTranslate(hide, mobile) ==
    IF hide /\ ~mobile THEN "-translate-y-full" ELSE "translate-y-0"

\* scrolling and the mobile menu together
HeaderNext ==
    \/ NavScroll
    \/ NavResubscribe
    \/ ToggleMobile
    \/ MobileLinkClick
    \/ AutoFocusFires

HeaderSpec == Init /\ [][HeaderNext]_vars

----------------------------------------------------------------------------
(* Scroll-triggered reveals: useInView(ref, { once: true, .. }) *)

\* the hook called without once: true
RevealRepeats == FALSE

\* every call site passes once: true
RevealOnce == TRUE

\* scrolling brings element e into the viewport: an attached observer
\* reports it, the hook sets its state to true and, with once, detaches
EnterViewport(e) ==
    /\ ~inViewport[e]
    /\ inViewport' = [inViewport EXCEPT ![e] = TRUE]
    /\ visits' = [visits EXCEPT ![e] = Min(@ + 1, 2)]
    /\ IF observing[e]
       THEN /\ isInView' = [isInView EXCEPT ![e] = TRUE]
            /\ reveals' = [reveals EXCEPT ![e] = IF isInView[e] THEN @
                                                 ELSE @ + 1]
            /\ observing' = [observing EXCEPT ![e] = ~RevealOnce]
       ELSE UNCHANGED <<isInView, reveals, observing>>
    /\ UNCHANGED <<preVars, navVars, menuVars, heroVars, otherVars>>

\* scrolling takes element e out of the viewport: only an observer that is
\* still attached reports it
LeaveViewport(e) ==
    /\ inViewport[e]
    /\ inViewport' = [inViewport EXCEPT ![e] = FALSE]
    /\ isInView' = IF observing[e] THEN [isInView EXCEPT ![e] = FALSE]
                   ELSE isInView
    /\ UNCHANGED <<observing, reveals, visits, preVars, navVars, menuVars,
                   heroVars, otherVars>>

RevealNext ==
    \/ \E e \in RevealSites : EnterViewport(e)
    \/ \E e \in RevealSites : LeaveViewport(e)

RevealSpec == Init /\ [][RevealNext]_vars

----------------------------------------------------------------------------
(* Hero: scroll parallax *)

\* values of window.scrollY and of window.innerHeight, in px
HeroYs == {0, 280, 560, 700, 800, 900}
HeroHeights == {600, 800, 1000}
MousePoints == {[x |-> 50, y |-> 50], [x |-> 0, y |-> 100]}

\* fractions as <<numerator, denominator>>, denominators positive, in
\* lowest terms
RECURSIVE GCD(_, _)
GCD(a, b) == IF b = 0 THEN a ELSE GCD(b, a % b)

Frac(n, d) ==
    LET g == GCD(IF n < 0 THEN 0 - n ELSE n, d) IN <<n \div g, d \div g>>

FracEq(a, b) == a[1] * b[2] = b[1] * a[2]
FracLe(a, b) == a[1] * b[2] <= b[1] * a[2]

\* progress = Math.min(scrollY / (viewportHeight * 0.7), 1)
Progress(s, vh) == Frac(Min(10 * s, 7 * vh), 7 * vh)

\* the opacity without the Math.min
ContentOpacityUnclamped(s, vh) == Frac(7 * vh - 10 * s, 7 * vh)

\* contentOpacity = 1 - progress
ContentOpacity(s, vh) ==
    Frac(Progress(s, vh)[2] - Progress(s, vh)[1], Progress(s, vh)[2])

\* contentTranslateY = scrollY * 0.3
ContentTranslateY(s) == Frac(3 * s, 10)

\* contentScale = 1 - progress * 0.05
ContentScale(s, vh) ==
    Frac(20 * Progress(s, vh)[2] - Progress(s, vh)[1],
         20 * Progress(s, vh)[2])

\* scrollIndicatorOpacity = Math.max(0, 1 - progress * 2)
ScrollIndicatorOpacity(s, vh) ==
    LET n == Progress(s, vh)[2] - 2 * Progress(s, vh)[1] IN
      Frac(IF n < 0 THEN 0 ELSE n, Progress(s, vh)[2])

\* the four derived values of a render with state scrollY = s and
\* viewportHeight = vh
Derived(s, vh) ==
    <<ContentOpacity(s, vh), ContentTranslateY(s), ContentScale(s, vh),
      ScrollIndicatorOpacity(s, vh)>>

SameDerived(d, e) == \A i \in 1 .. 4 : FracEq(d[i], e[i])

\* the sum of two fractions
FracAdd(a, b) == Frac(a[1] * b[2] + b[1] * a[2], a[2] * b[2])

\* mouseOffsetX = (mousePosition.x - 0.5) * 10, for a pointer at m percent
\* of the window
mouseOffsetX(m) == Frac((m.x - 50) * 10, 100)

\* mouseOffsetY = (mousePosition.y - 0.5) * 5
mouseOffsetY(m) == Frac((m.y - 50) * 5, 100)

\* the content layer's transform: translateY(contentTranslateY)
\* translateX(mouseOffsetX) scale(contentScale), as the translation in x and
\* in y and the scale
ContentTransform(s, vh, m) ==
    [x |-> mouseOffsetX(m), y |-> ContentTranslateY(s),
     scale |-> ContentScale(s, vh)]

\* the 3D canvas layer's transform: translate(-mouseOffsetX * 0.5,
\* -mouseOffsetY * 0.5)
CanvasTransform(m) ==
    [x |-> Frac(0 - mouseOffsetX(m)[1], 2 * mouseOffsetX(m)[2]),
     y |-> Frac(0 - mouseOffsetY(m)[1], 2 * mouseOffsetY(m)[2])]

\* state scrollY after handleScroll has read window.scrollY = y, with the
\* viewportHeight it closed over
ScrollYAfter(y, held, vh) == IF y < vh THEN y ELSE held

\* a scroll event in the first run
HeroScroll ==
    \E y \in HeroYs :
      /\ y # heroWinY
      /\ heroWinY' = y
      /\ heroScrollY' = ScrollYAfter(y, heroScrollY, handlerVh)
      /\ UNCHANGED <<twinWinY, twinScrollY, innerHeight, viewportHeight,
                     handlerVh, mousePosition, preVars, navVars, menuVars,
                     revealVars, otherVars>>

\* a scroll event in the second run
TwinScroll ==
    \E y \in HeroYs :
      /\ y # twinWinY
      /\ twinWinY' = y
      /\ twinScrollY' = ScrollYAfter(y, twinScrollY, handlerVh)
      /\ UNCHANGED <<heroWinY, heroScrollY, innerHeight, viewportHeight,
                     handlerVh, mousePosition, preVars, navVars, menuVars,
                     revealVars, otherVars>>

\* the window is resized: updateViewportHeight
HeroResize ==
    \E h \in HeroHeights :
      /\ h # innerHeight
      /\ innerHeight' = h
      /\ viewportHeight' = h
      /\ UNCHANGED <<heroWinY, heroScrollY, twinWinY, twinScrollY, handlerVh,
                     mousePosition, preVars, navVars, menuVars, revealVars,
                     otherVars>>

\* the effect with deps [viewportHeight] runs after the render: it removes
\* the old scroll listener and adds one that closes over the new height
HeroResubscribe ==
    /\ handlerVh # viewportHeight
    /\ handlerVh' = viewportHeight
    /\ UNCHANGED <<heroWinY, heroScrollY, twinWinY, twinScrollY, innerHeight,
                   viewportHeight, mousePosition, preVars, navVars, menuVars,
                   revealVars, otherVars>>

\* the mouse moves: handleMouseMove
HeroMouseMove ==
    \E m \in MousePoints :
      /\ m # mousePosition
      /\ mousePosition' = m
      /\ UNCHANGED <<heroWinY, heroScrollY, twinWinY, twinScrollY,
                     innerHeight, viewportHeight, handlerVh, preVars,
                     navVars, menuVars, revealVars, otherVars>>

HeroNext ==
    \/ HeroScroll
    \/ TwinScroll
    \/ HeroResize
    \/ HeroResubscribe
    \/ HeroMouseMove

HeroSpec == Init /\ [][HeroNext]_vars

----------------------------------------------------------------------------
(* Navigation: the active section *)

\* the ids the effect looks up and observes
sections == {"divisions", "ecosystem", "impact", "about", "careers"}

\* what an IntersectionObserverEntry tells the callback
Entries == [id : sections, isIntersecting : BOOLEAN]

\* a callback that keeps the first intersecting entry of a batch
RECURSIVE observerCallbackFirstWins(_, _)
observerCallbackFirstWins(active, entries) ==
    IF entries = << >> THEN active
    ELSE IF Head(entries).isIntersecting THEN Head(entries).id
    ELSE observerCallbackFirstWins(active, Tail(entries))

\* activeSection after observerCallback(entries): entries.forEach sets it
\* to the id of each intersecting entry in turn
RECURSIVE observerCallback(_, _)
observerCallback(active, entries) ==
    IF entries = << >> THEN active
    ELSE observerCallback(IF Head(entries).isIntersecting
                          THEN Head(entries).id
                          ELSE active,
                          Tail(entries))

\* the observer delivers a batch of entries
ObserverBatch ==
    \E n \in 1 .. MaxBatch :
      \E entries \in [1 .. n -> Entries] :
        /\ activeSection' = observerCallback(activeSection, entries)
        /\ lastEntries' = entries
        /\ UNCHANGED <<preVars, navVars, menuVars, contentVars, counterVars>>

SectionNext == ObserverBatch

SectionSpec == Init /\ [][SectionNext]_vars

----------------------------------------------------------------------------
(* AnimatedCounter *)

COUNTER_STEPS == 60

\* the values the StatsSection passes
CounterValues == {6, 50, 200, 10000}

\* an interval callback that never calls clearInterval
TickResultNoClear(value, n, under) ==
    [count |-> IF n * value >= COUNTER_STEPS * value
               THEN value
               ELSE (n * value) \div COUNTER_STEPS,
     done  |-> FALSE]

\* what the n-th interval callback does for this value: current is n times
\* value / 60, and where that sum is a whole number the floating-point sum
\* may lie just under it (under); count is what it passes to setCount, done
\* whether it called clearInterval
TickResult(value, n, under) ==
    LET reached == \/ n * value > COUNTER_STEPS * value
                   \/ n * value = COUNTER_STEPS * value /\ ~under
    IN  [count |-> IF reached THEN value
                   ELSE IF under THEN (n * value) \div COUNTER_STEPS - 1
                   ELSE (n * value) \div COUNTER_STEPS,
         done  |-> reached]

\* the StatsSection comes into view and renders the counter: count is 0,
\* the counter's own useInView is still false and the effect returns early
CounterMount ==
    /\ ~ctrMounted
    /\ \E v \in CounterValues : ctrValue' = v
    /\ ctrMounted' = TRUE
    /\ ctrCount' = 0
    /\ ctrTicks' = 0
    /\ ctrUnder' = FALSE
    /\ ctrInterval' = FALSE
    /\ ctrInView' = FALSE
    /\ UNCHANGED <<preVars, navVars, menuVars, contentVars, sectionVars>>

\* useInView reports the span: the effect runs again, sets current to 0 and
\* sets the interval
CounterInView ==
    /\ ctrMounted
    /\ ~ctrInView
    /\ ctrInView' = TRUE
    /\ ctrTicks' = 0
    /\ ctrUnder' = FALSE
    /\ ctrInterval' = TRUE
    /\ UNCHANGED <<ctrValue, ctrCount, ctrMounted, preVars, navVars,
                   menuVars, contentVars, sectionVars>>

\* the interval callback runs, 30 ms after the one before
CounterTick ==
    /\ ctrInterval
    /\ \E under \in IF ((ctrTicks + 1) * ctrValue) % COUNTER_STEPS = 0
                     THEN BOOLEAN ELSE {FALSE} :
         LET r == TickResult(ctrValue, ctrTicks + 1, under) IN
           /\ ctrTicks' = ctrTicks + 1
           /\ ctrUnder' = under
           /\ ctrCount' = r.count
           /\ ctrInterval' = ~r.done
    /\ UNCHANGED <<ctrValue, ctrMounted, ctrInView, preVars, navVars,
                   menuVars, contentVars, sectionVars>>

\* the counter unmounts: the effect's cleanup clears the interval
CounterUnmount ==
    /\ ctrMounted
    /\ ctrMounted' = FALSE
    /\ ctrInterval' = FALSE
    /\ UNCHANGED <<ctrValue, ctrCount, ctrTicks, ctrUnder, ctrInView,
                   preVars, navVars, menuVars, contentVars, sectionVars>>

CounterNext ==
    \/ CounterMount
    \/ CounterInView
    \/ CounterTick
    \/ CounterUnmount

CounterSpec == Init /\ [][CounterNext]_vars

\* a set interval keeps firing
CounterFairSpec == CounterSpec /\ WF_vars(CounterTick)

----------------------------------------------------------------------------
(* Properties of the Preloader *)

\* every timer of the Preloader has fired or was cancelled, and it is gone
PreloaderDone == ~UserActive

\* C1: the completion callback is invoked exactly once in every run: never
\* more than once, and once when the run is over
C1_CallbackExactlyOnce ==
    /\ calls <= 1
    /\ PreloaderDone => calls = 1

\* C2: no timer the Preloader registered fires after it was unmounted
C2_NoTimerAfterUnmount == late = {}

\* C3: the phase only moves forward, loading -> complete -> exit, and once
\* it is exit it never changes again
C3_PhaseForwardOnly ==
    [][/\ phase = "exit" => phase' = "exit"
       /\ phase = "complete" => phase' # "loading"]_vars

\* C4: with no skip and the stages stalled, the completion callback is
\* invoked no later than 10000 ms (+ 50 ms) after mount
C4_WatchdogCallbackBy10s ==
    (stalled /\ hist.skip = -1) =>
        /\ hist.call # -1 => hist.call <= WATCHDOG_MS + 50
        /\ now > WATCHDOG_MS + 50 => hist.call # -1

\* C5: while the phase is not exit the pending watchdog is due 10 s after
\* mount: no phase change and no re-render of the parent moves its deadline
C5_WatchdogAbsolute ==
    (mounted /\ phase # "exit" /\ timer["wd"] # Off /\ now < Horizon) =>
        now + timer["wd"] = WATCHDOG_MS

\* C6: a skip takes effect only from 2000 ms after mount on (before that the
\* phase is loading, no callback is pending or made, whatever is clicked);
\* a skip sets the phase to exit at once and the completion callback is
\* invoked 300 ms after the skip
C6_Skip ==
    /\ now < SKIP_SHOW_MS =>
         phase = "loading" /\ cbTimers = << >> /\ calls = 0 /\ hist.skip = -1
    /\ hist.skip # -1 =>
         /\ hist.skip >= SKIP_SHOW_MS
         /\ hist.exit = hist.skip
         /\ (hist.call # -1 /\ hist.call < Horizon) =>
              hist.call = hist.skip + FORCED_CALLBACK_MS
         /\ (hist.call = -1 /\ now < Horizon) =>
              \E i \in DOMAIN cbTimers :
                 now + cbTimers[i] = hist.skip + FORCED_CALLBACK_MS

\* a click before the button was there did nothing, a later one skipped,
\* and the callback was made 300 ms after it
C6_Witness ==
    /\ hist.click # -1 /\ hist.click < SKIP_SHOW_MS
    /\ hist.skip >= SKIP_SHOW_MS
    /\ phase = "exit"
    /\ hist.call = hist.skip + FORCED_CALLBACK_MS

\* C7: every run, also one whose stages never stall, eventually reaches
\* phase exit and invokes the completion callback
C7_EventuallyCompletes == ~stalled => <>(hist.exit # -1 /\ calls >= 1)

\* no skip was made and the watchdog did not force the exit
NormalPath == hist.skip = -1 /\ hist.forced = -1

\* C8: on the normal path progress is 100 when the phase becomes complete,
\* assetsReady follows 400 ms later, phase exit 600 ms after that and the
\* completion callback 800 ms after that, each after its predecessor
C8_NormalPathTimeline ==
    (NormalPath /\ now < Horizon) =>
        /\ hist.complete # -1 => progress = 100
        /\ hist.ready # -1 =>
             hist.complete # -1 /\ hist.ready = hist.complete + READY_DELAY_MS
        /\ hist.exit # -1 =>
             hist.ready # -1 /\ hist.exit = hist.ready + EXIT_DELAY_MS
        /\ hist.call # -1 =>
             hist.exit # -1 /\ hist.call = hist.exit + EXIT_CALLBACK_MS

\* C9: the displayed progress is a whole number in 0 .. 100 in every state
\* and does not decrease while the phase is loading
C9_ProgressMonotone ==
    /\ [](progress \in 0 .. 100)
    /\ [][phase = "loading" => progress' >= progress]_vars

\* the display is in the middle of the fourth stage
C9_Witness == phase = "loading" /\ currentStage = 3 /\ progress = 60

----------------------------------------------------------------------------
(* Properties of the Navigation *)

\* C10 as stated, for a handler that holds the previous scroll position:
\* with d the distance from the previous scroll position, above 500 a d of
\* 10 or more hides the nav and a d of -10 or less shows it, and at or below
\* 500 the nav is shown
C10_HideRuleAsStated ==
    [][(winScrollY' # winScrollY /\ handlerLastY = winScrollY) =>
         LET d == winScrollY' - winScrollY IN
           /\ (winScrollY' > NAV_HIDE_FROM /\ d >= NAV_MIN_DELTA) => hideNav'
           /\ (winScrollY' > NAV_HIDE_FROM /\ -d >= NAV_MIN_DELTA) => ~hideNav'
           /\ winScrollY' <= NAV_HIDE_FROM => ~hideNav']_vars

\* C10 as amended: with d the distance from the lastScrollY the subscribed
\* handler holds, above 500 a d of more than 10 hides the nav, a d of less
\* than -10 shows it and any other d (exactly 10 too) leaves hideNav as it
\* is; at or below 500 the nav is shown
C10_HideRule ==
    [][winScrollY' # winScrollY =>
         LET d == winScrollY' - handlerLastY IN
           /\ (winScrollY' > NAV_HIDE_FROM /\ d > NAV_MIN_DELTA) => hideNav'
           /\ (winScrollY' > NAV_HIDE_FROM /\ -d > NAV_MIN_DELTA) => ~hideNav'
           /\ (winScrollY' > NAV_HIDE_FROM /\ d <= NAV_MIN_DELTA
                 /\ -d <= NAV_MIN_DELTA) => hideNav' = hideNav
           /\ winScrollY' <= NAV_HIDE_FROM => ~hideNav']_vars

\* the window was scrolled down the page by exactly 10 px, from 500 to 510,
\* and the nav did not hide
C10_Witness ==
    /\ winScrollY = 510 /\ lastScrollY = 510 /\ handlerLastY = 500
    /\ ~hideNav

\* C11 as stated: replaying 0, 100, 600, 580, 620, the nav is shown after 0
\* and after 100, hidden from the 100 -> 600 event on, and neither the
\* 600 -> 580 event nor a later one shows it again
C11_ReplayAsStated ==
    /\ replayIdx \in {1, 2} => ~hideNav
    /\ replayIdx \in {3, 4, 5} => hideNav

\* C11 as amended: replaying 0, 100, 600, 580, 620, the nav is shown after 0
\* and after 100, hidden by the 100 -> 600 event, shown again by the
\* 600 -> 580 event (20 px up the page) when the handler holds the previous
\* position 600, and hidden after the 580 -> 620 event
C11_Replay ==
    /\ [](replayIdx \in {1, 2} => ~hideNav)
    /\ [](replayIdx \in {3, 5} => hideNav)
    /\ [][(replayIdx = 3 /\ replayIdx' = 4 /\ handlerLastY = lastScrollY)
            => ~hideNav']_vars

\* the sequence was replayed up to 580 and the nav is shown
C11_Witness == replayIdx = 4 /\ winScrollY = 580 /\ ~hideNav

----------------------------------------------------------------------------
(* Properties of the overlays *)

\* C12: body scroll is locked exactly when the mobile menu or the search
\* overlay is open, in every reachable state: closing one of two open
\* overlays, or a re-render of Navigation, does not unlock it while the
\* other is still open
C12_BodyLockIff == bodyLocked <=> (mobileOpen \/ searchOpen)

C14_QuickHoverNeverOpens == ~slowHover => ~megaMenuOpen

\* a stay of less than 150 ms ended one step ago; the menu is closed
C14_Witness ==
    /\ pointer = "away" /\ ~slowHover /\ ~megaMenuOpen
    /\ megaTimers = <<MegaTimer(Dec(DIV_CLOSE_MS), FALSE)>>

\* C15: when the pointer leaves the open mega menu the menu stays open and
\* a close is pending 200 ms later; when the pointer re-enters the open
\* menu no close is pending any more and the menu is still open
C15_MenuLeaveKeepsOpen ==
    [][/\ (megaMenuOpen /\ pointer = "menu" /\ pointer' = "away") =>
            /\ megaMenuOpen'
            /\ megaTimers' = <<MegaTimer(MENU_CLOSE_MS, FALSE)>>
       /\ (megaMenuOpen /\ pointer = "away" /\ pointer' = "menu") =>
            /\ megaMenuOpen'
            /\ megaTimers' = << >>]_vars

\* C16: whatever overlays are open, after one press of Escape mobileOpen,
\* megaMenuOpen and searchOpen are all false
C16_EscapeClosesAll ==
    lastKey.key = "Escape" => ~mobileOpen /\ ~megaMenuOpen /\ ~searchOpen

\* Escape was pressed with all three overlays open and closed them
C16_Witness ==
    /\ lastKey.key = "Escape"
    /\ lastKey.open = {"mobile", "mega", "search"}
    /\ ~mobileOpen /\ ~megaMenuOpen /\ ~searchOpen

\* C17: with the mobile menu open and focus on one of its N >= 1 focusable
\* elements, Tab on the N-th moves focus to the 1st, Shift+Tab on the 1st
\* moves it to the N-th, and after any Tab or Shift+Tab focus is still on
\* one of the N elements
C17_FocusTrap ==
    (lastKey.key \in {"Tab", "ShiftTab"} /\ lastKey.focus >= 1) =>
        /\ mobileOpen /\ focusables >= 1
        /\ focus \in 1 .. focusables
        /\ (lastKey.key = "Tab" /\ lastKey.focus = focusables) => focus = 1
        /\ (lastKey.key = "ShiftTab" /\ lastKey.focus = 1) =>
             focus = focusables

\* Shift+Tab on the first of several elements moved focus to the last
C17_Witness ==
    /\ lastKey.key = "ShiftTab" /\ lastKey.focus = 1
    /\ focusables = MaxFocusable /\ focus = MaxFocusable

----------------------------------------------------------------------------
(* Properties of the page content *)

\* C18: for every observed element the in-view flag goes from false to
\* true at most once and is never reset: it stays true while the element is
\* scrolled out of view and back in, and its reveal starts exactly once
C18_OneShotReveal ==
    /\ [][\A e \in RevealSites : isInView[e] => isInView'[e]]_vars
    /\ [](\A e \in RevealSites :
            /\ reveals[e] <= 1
            /\ isInView[e] <=> reveals[e] = 1
            /\ visits[e] >= 1 => isInView[e])

\* an element came into view, went out and is in view again
C18_Witness ==
    \E e \in RevealSites :
      visits[e] = 2 /\ inViewport[e] /\ isInView[e] /\ reveals[e] = 1

\* C19: the hero's derived values are those of the current scroll position
\* and viewport height, and two runs that are at the same scroll position
\* (same viewport, same pointer) have the same derived values, whatever
\* their histories
C19_DerivedFromInputsAlone ==
    /\ SameDerived(Derived(heroScrollY, viewportHeight),
                   Derived(heroWinY, innerHeight))
    /\ heroWinY = twinWinY =>
         SameDerived(Derived(heroScrollY, viewportHeight),
                     Derived(twinScrollY, viewportHeight))

\* C20: for state scrollY in [0, viewportHeight] the rendered contentOpacity
\* is 1 - clamp(scrollY / (viewportHeight * 0.7), 0, 1), lies in [0, 1], and
\* is not above the contentOpacity of any smaller scrollY in that range
C20_ContentOpacity ==
    LET vh == viewportHeight
        op == ContentOpacity(heroScrollY, vh)
        ratio == Frac(10 * heroScrollY, 7 * vh)
        clamped == IF FracLe(ratio, <<0, 1>>) THEN <<0, 1>>
                   ELSE IF FracLe(<<1, 1>>, ratio) THEN <<1, 1>>
                   ELSE ratio
    IN  (heroScrollY >= 0 /\ heroScrollY <= vh) =>
          /\ FracEq(op, <<clamped[2] - clamped[1], clamped[2]>>)
          /\ FracLe(<<0, 1>>, op) /\ FracLe(op, <<1, 1>>)
          /\ \A s \in HeroYs :
               (s <= heroScrollY) => FracLe(op, ContentOpacity(s, vh))
          /\ \A s \in HeroYs :
               (s >= heroScrollY /\ s <= vh) =>
                  FracLe(ContentOpacity(s, vh), op)

\* the hero is rendered with scrollY past 70 % of the viewport height and
\* its content is fully transparent
C20_Witness ==
    /\ heroScrollY = 700 /\ viewportHeight = 800
    /\ FracEq(ContentOpacity(heroScrollY, viewportHeight), <<0, 1>>)

----------------------------------------------------------------------------
(* Properties of the active section, the counter and the stage driver *)

\* C21: the active section id is empty or one of divisions, ecosystem,
\* impact, about, careers in every reachable state, and after an observer
\* batch with intersecting entries it is the id of the last of them
C21_ActiveSection ==
    /\ activeSection \in {""} \cup sections
    /\ \A i \in DOMAIN lastEntries :
         (/\ lastEntries[i].isIntersecting
          /\ \A j \in DOMAIN lastEntries :
                j > i => ~lastEntries[j].isIntersecting)
         => activeSection = lastEntries[i].id

\* one batch reported two different sections intersecting
C21_Witness ==
    /\ Len(lastEntries) >= 2
    /\ lastEntries[1].isIntersecting /\ lastEntries[2].isIntersecting
    /\ lastEntries[1].id = "divisions" /\ lastEntries[2].id = "ecosystem"
    /\ activeSection = "ecosystem"

\* C22: the exit sequence (600 ms exit timer, phase exit, callback 800 ms
\* later) is started at most once per Preloader: the exit timer fires at
\* most once, also when the parent re-renders with a new onComplete
C22_ExitStartedOnce == hist.exits <= 1

\* C25: the six stages run in order with targets 15, 35, 55, 75, 90, 100;
\* while a stage runs the displayed progress is not above its target; a
\* stage ends by snapping to exactly its target, and only then does the
\* next one start, from that target; every tick of a running stage either
\* ends it or moves it closer to its target by a positive increment, so a
\* stage ends after finitely many ticks
C25_StageDriver ==
    /\ [](/\ currentStage \in 0 .. 6
          /\ <<15, 35, 55, 75, 90, 100>> = [i \in 1 .. 6 |-> stages[i].target]
          /\ ((mounted /\ currentStage < 6) =>
                progress <= stages[currentStage + 1].target)
          /\ (timer["tick"] # Off =>
                /\ currentStage < 6
                /\ timer["pause"] = Off
                /\ increment > 0
                /\ currentProgress <= stages[currentStage + 1].target * Scale
                /\ (currentStage > 0 =>
                      currentProgress >= stages[currentStage].target * Scale)))
    /\ [][
          /\ currentStage' \in {currentStage, currentStage + 1}
          /\ (currentStage' = currentStage + 1 =>
                /\ timer["tick"] # Off
                /\ currentProgress' = stages[currentStage'].target * Scale
                /\ (mounted => progress' = stages[currentStage'].target)
                /\ timer'["tick"] = Off /\ timer'["pause"] # Off)
          /\ ((timer["tick"] # Off /\ currentProgress' # currentProgress) =>
                currentProgress' > currentProgress)
       ]_vars

\* all six stages have run and the bar shows 100
C25_Witness ==
    /\ currentStage = 6 /\ progress = 100 /\ mounted
    /\ hist.skip = -1 /\ hist.forced = -1

\* C23: every nav scroll event decides hideNav from the delta between the
\* position it reads and the position of the scroll event just before it,
\* also when the handler has not been re-subscribed in between
C23_DeltaFromPrevious ==
    [][winScrollY' # winScrollY =>
         hideNav' = HideAfter(winScrollY', lastScrollY, hideNav)]_vars

\* C27: a scroll event above 500 whose position is at most 10 px away from
\* the recorded lastScrollY leaves hideNav unchanged and records the new
\* position, so a scroll made of steps of at most 10 px never changes
\* hideNav while above 500
C27_SmallSteps ==
    [][(/\ winScrollY' # winScrollY
        /\ winScrollY' > NAV_HIDE_FROM
        /\ winScrollY' - lastScrollY <= NAV_MIN_DELTA
        /\ lastScrollY - winScrollY' <= NAV_MIN_DELTA) =>
         (hideNav' = hideNav /\ lastScrollY' = winScrollY')]_vars

C24_ScrollFreeze ==
    [][heroWinY' # heroWinY =>
         IF heroWinY' >= viewportHeight
         THEN /\ heroScrollY' = heroScrollY
              /\ Derived(heroScrollY', viewportHeight')
                   = Derived(heroScrollY, viewportHeight)
         ELSE heroScrollY' = heroWinY']_vars

\* C29: the tracked scrollY is below the tracked viewportHeight in every
\* reachable state, also after a resize that shrinks the viewport
C29_ScrollBelowHeight == heroScrollY < viewportHeight

\* C26: with offsetX = (pointerX - 0.5) * 10 and offsetY = (pointerY - 0.5)
\* * 5 the content layer is translated by offsetX horizontally and by the
\* scroll-driven translation plus offsetY vertically, and the 3D canvas
\* layer by (-offsetX / 2, -offsetY / 2)
C26_PointerParallax ==
    LET offsetX == Frac((mousePosition.x - 50) * 10, 100)
        offsetY == Frac((mousePosition.y - 50) * 5, 100)
        content == ContentTransform(heroScrollY, viewportHeight,
                                    mousePosition)
        canvas  == CanvasTransform(mousePosition)
    IN  /\ FracEq(content.x, offsetX)
        /\ FracEq(content.y,
                  FracAdd(ContentTranslateY(heroScrollY), offsetY))
        /\ FracEq(canvas.x, <<0 - offsetX[1], 2 * offsetX[2]>>)
        /\ FracEq(canvas.y, <<0 - offsetY[1], 2 * offsetY[2]>>)

\* C30: once in view the counter's count starts at 0, never decreases and
\* never exceeds value; its interval runs for at most 61 ticks and always
\* stops; when it has stopped on a mounted counter the count is exactly
\* value and never changes again; unmounting clears the interval
C30_Counter ==
    /\ [](/\ ctrMounted => (0 <= ctrCount /\ ctrCount <= ctrValue)
          /\ ctrInterval => (ctrMounted /\ ctrInView
                              /\ ctrTicks <= COUNTER_STEPS)
          /\ (ctrMounted /\ ~ctrInView) => (ctrCount = 0 /\ ~ctrInterval)
          /\ (ctrMounted /\ ctrInView /\ ~ctrInterval) =>
                ctrCount = ctrValue)
    /\ [][
          /\ (ctrInView' /\ ~ctrInView) => (ctrCount' = 0 /\ ctrInterval')
          /\ (ctrMounted /\ ctrMounted') => ctrCount' >= ctrCount
          /\ (ctrMounted /\ ctrMounted' /\ ctrInView /\ ~ctrInterval) =>
                (ctrCount' = ctrCount /\ ~ctrInterval')
          /\ ~ctrMounted' => ~ctrInterval'
       ]_vars
    /\ (ctrInterval ~> ~ctrInterval)

\* the counter for 6 has finished on its 61st tick, the floating-point sum
\* of 60 increments of 0.1 being below 6
C30_Witness ==
    /\ ctrMounted /\ ctrInView /\ ~ctrInterval
    /\ ctrValue = 6 /\ ctrCount = 6 /\ ctrTicks = COUNTER_STEPS + 1

====
